---- MODULE Spec2Model ----
(***************************************************************************)
(* Model of tw_demo_analyzer (src/src/main.rs): the change detection of    *)
(* the Analyze command, the statistics calculator                          *)
(* calculate_direction_change_stats, the hook projection hook_pressed and  *)
(* the combine step that builds the result map.                            *)
(*                                                                         *)
(* Four specifications:                                                    *)
(*   Spec      the Analyze command: one action per iteration of the inner  *)
(*             loop over snap.players, one action for the end of the       *)
(*             stream followed by the statistics and combine steps;        *)
(*   SpecStats the statistics calculator as a pure function, applied to    *)
(*             every log of at most MaxLen ticks drawn from Ticks;         *)
(*   SpecProject the two signals read from one character state;            *)
(*   SpecExtract the extract function: one action per chunk read.          *)
(*                                                                         *)
(* f32 values (average, median) are modelled as reduced fractions          *)
(* <<numerator, denominator>>: all operands are small integers, which f32  *)
(* holds exactly, and one correctly rounded division maps equal fractions  *)
(* to equal floats and (at these sizes) different ones to different floats.*)
(***************************************************************************)
EXTENDS Integers, Sequences, FiniteSets, TLC

VARIABLES
    build,                  \* "debug" (overflow checks on) or "release" (wrapping)
    filter,                 \* filter_options.filter
    pc,                     \* "reading", "done" or "panicked"
    reader_end,             \* how the read loop ended: "none", "eof" or "error"
    last_input_direction,   \* HashMap name -> Direction
    last_input_hook,        \* HashMap name -> bool
    direction_stats,        \* HashMap name -> Vec<i32> (direction change ticks)
    hook_stats,             \* HashMap name -> Vec<i32> (hook change ticks)
    stats,                  \* HashMap name -> CombinedStats (the result map)
    nobs,                   \* loop iterations done so far
    obs_tick,               \* history: the tick of the latest observation
    seen,                   \* history: name -> signals at its latest observation
    changes,                \* SpecStats: the log handed to the calculator
    result,                 \* SpecStats: what the calculator returned
    called,                 \* SpecStats: the calculator has been applied
    tee,                    \* SpecProject: the character state read
    signal,                 \* SpecProject: <<direction, hook pressed>> read from it
    projected,              \* SpecProject: the signals have been read
    inputs,                 \* SpecExtract: HashMap name -> Vec<Inputs>
    extract_pc,             \* SpecExtract: "reading" or "returned"
    extract_end,            \* SpecExtract: how the read loop ended
    snaps                   \* SpecExtract, history: the snapshots read, in order

avars == <<filter, pc, reader_end, last_input_direction, last_input_hook,
           direction_stats, hook_stats, stats, nobs, obs_tick, seen>>
svars == <<changes, result, called>>
pvars == <<tee, signal, projected>>
evars == <<inputs, extract_pc, extract_end, snaps>>
vars == <<build, avars, svars, pvars, evars>>

----------------------------------------------------------------------------
(* Bounds of the model *)

MaxObs == 4
MaxLen == 4
MaxSnaps == 3

(* Program constants *)

Window == 50
MaxI32 == 2147483647
MinI32 == -MaxI32 - 1

Builds == {"debug", "release"}

Directions == {"Left", "None", "Right"}

HookStates == {"Retracted", "Idle", "RetractStart", "Retracting",
               "RetractEnd", "Flying", "Grabbed"}

\* Ticks of the logs given to the calculator: Scenario A's ticks, a tick one
\* window after 0 and one past it, and the two ends of the range in which
\* tick + 50 leaves i32.
Ticks == {0, 10, 35, 50, 51, MaxI32 - Window, MaxI32}

\* Ticks carried by the tees of the analysed stream.
StreamTicks == {10, MaxI32}

\* Player names and filters, as sequences of characters.
Names == {<<"A">>, <<"a", "B">>}
Filters == {<<>>, <<"B">>}

NoTee == [tee |-> FALSE]
Tees == [tee : {TRUE}, tick : StreamTicks, direction : Directions,
         hook_state : HookStates]

----------------------------------------------------------------------------
(* Strings *)

ToLowerChar(c) == IF c = "A" THEN "a" ELSE IF c = "B" THEN "b" ELSE c

to_lowercase(s) == [i \in 1..Len(s) |-> ToLowerChar(s[i])]

contains(s, sub) ==
    \E k \in 0..(Len(s) - Len(sub)) :
        \A i \in 1..Len(sub) : s[k + i] = sub[i]

\* A mutant of Matches: the filter is compared as typed.
MatchesFilterAsTyped(name, f) == contains(to_lowercase(name), f)

Matches(name, f) == contains(to_lowercase(name), to_lowercase(f))

----------------------------------------------------------------------------
(* Fractions standing for f32 values *)

RECURSIVE GCD(_, _)
GCD(a, b) == IF b = 0 THEN a ELSE GCD(b, a % b)

Frac(n, d) == LET g == GCD(n, d) IN <<n \div g, d \div g>>

Zero == Frac(0, 1)

----------------------------------------------------------------------------
(* calculate_direction_change_stats, main.rs:102-150 *)

StatsDefault ==
    [panic |-> FALSE, average |-> Zero, median |-> Zero, max |-> 0,
     overall_changes |-> 0]

Panic == [panic |-> TRUE]

\* A mutant of sort: the sequence is left as it arrived.
sort_skipped(s) == s

\* changes.sort()
sort(s) == SortSeq(s, LAMBDA a, b : a < b)

\* changes[i] + 50 does not fit in i32
Overflows(t) == t > MaxI32 - Window

\* changes[i] + 50 in two's complement when it does not fit: t + 50 - 2^32
WrappedLastTick(t) == ((t - MaxI32) + (Window - 1)) + MinI32

\* let last_tick = changes[i] + 50 (a build without overflow checks)
LastTick(t) == IF Overflows(t) THEN WrappedLastTick(t) ELSE t + Window

\* A mutant of CountActions: an event exactly 50 ticks later is outside the
\* window (>= for >).
RECURSIVE CountActionsExclusive(_, _, _, _, _)
CountActionsExclusive(sorted, i, n, last_tick, actions) ==
    IF n >= Window THEN actions
    ELSE IF (i - 1) + n >= Len(sorted) \/ sorted[i + n] >= last_tick THEN actions
    ELSE CountActionsExclusive(sorted, i, n + 1, last_tick, actions + 1)

\* A mutant of CountActions: an event at the tick of the event itself is not
\* counted (zero elapsed time contributes nothing).
RECURSIVE CountActionsSkipCoincident(_, _, _, _, _)
CountActionsSkipCoincident(sorted, i, n, last_tick, actions) ==
    IF n >= Window THEN actions
    ELSE IF (i - 1) + n >= Len(sorted) \/ sorted[i + n] > last_tick THEN actions
    ELSE CountActionsSkipCoincident(sorted, i, n + 1, last_tick,
             IF sorted[i + n] = sorted[i] THEN actions ELSE actions + 1)

\* The inner loop, main.rs:113-119: for n in 1..50, break at the end of the
\* log or at the first event after last_tick, else actions += 1.  i is the
\* 1-based position of the event (the code's i + 1).
RECURSIVE CountActions(_, _, _, _, _)
CountActions(sorted, i, n, last_tick, actions) ==
    IF n >= Window THEN actions
    ELSE IF (i - 1) + n >= Len(sorted) \/ sorted[i + n] > last_tick THEN actions
    ELSE CountActions(sorted, i, n + 1, last_tick, actions + 1)

\* The outer loop, main.rs:109-121: one sample per event of the sorted log.
Times(sorted) ==
    [i \in 1..Len(sorted) |->
        CountActions(sorted, i, 1, LastTick(sorted[i]), 1)]

RECURSIVE Sum(_)
Sum(s) == IF s = <<>> THEN 0 ELSE Head(s) + Sum(Tail(s))

\* main.rs:135
Average(times) == Frac(Sum(times), Len(times))

\* A mutant of Median: the upper middle sample, whatever the count.
MedianUpperMiddle(times) == Frac(times[(Len(times) \div 2) + 1], 1)

\* main.rs:137-142; mid is 0-based in the code
Median(times) ==
    IF Len(times) % 2 = 0
    THEN LET mid == Len(times) \div 2
         IN Frac(times[mid] + times[mid + 1], 2)
    ELSE Frac(times[(Len(times) \div 2) + 1], 1)

\* A mutant of calculate_direction_change_stats: the early return of the
\* duration-based variant, for logs of fewer than 2 events.
calculate_stats_short_zero(log, b) ==
    IF Len(log) < 2
    THEN [StatsDefault EXCEPT !.overall_changes = Len(log)]
    ELSE LET times == sort(Times(sort(log)))
         IN [panic |-> FALSE, average |-> Average(times),
             median |-> Median(times), max |-> times[Len(times)],
             overall_changes |-> Len(log)]

\* A mutant of calculate_direction_change_stats: overall_changes counts the
\* samples above 1 instead of the events.
calculate_stats_count_samples(log, b) ==
    IF log = <<>> THEN StatsDefault
    ELSE LET times == sort(Times(sort(log)))
         IN [panic |-> FALSE, average |-> Average(times),
             median |-> Median(times), max |-> times[Len(times)],
             overall_changes |->
                 Cardinality({i \in 1..Len(times) : times[i] > 1})]

\* The addition at main.rs:112 leaves i32 for some event of the log.
Overflowed(log) == \E i \in 1..Len(log) : Overflows(log[i])

\* The calculator.  In a build with overflow checks the addition at
\* main.rs:112 panics for an event whose tick + 50 leaves i32; otherwise it
\* wraps.
calculate_direction_change_stats(log, b) ==
    IF log = <<>> THEN StatsDefault
    ELSE LET sorted == sort(log)
         IN IF b = "debug" /\ Overflowed(sorted)
            THEN Panic
            ELSE LET unsorted_times == Times(sorted)
                 IN IF Len(unsorted_times) = 0
                    THEN Panic      \* assert!(times.len() > 0), main.rs:123
                    ELSE LET times == sort(unsorted_times)
                         IN [panic |-> FALSE,
                             average |-> Average(times),
                             median |-> Median(times),
                             max |-> times[Len(times)],
                             overall_changes |-> Len(sorted)]

----------------------------------------------------------------------------
(* hook_pressed, main.rs:152-162 *)

\* A mutant of hook_pressed: Flying does not count as pressed.
hook_pressed_grabbed_only(hs) == hs = "Grabbed"

hook_pressed(hs) ==
    CASE hs = "Retracted" -> FALSE
      [] hs = "Idle" -> FALSE
      [] hs = "RetractStart" -> FALSE
      [] hs = "Retracting" -> FALSE
      [] hs = "RetractEnd" -> FALSE
      [] hs = "Flying" -> TRUE
      [] hs = "Grabbed" -> TRUE

----------------------------------------------------------------------------
(* HashMap operations used by the Analyze command *)

Put(m, k, v) == [x \in (DOMAIN m) \cup {k} |-> IF x = k THEN v ELSE m[x]]

\* A mutant of input_changed: a name without an entry counts as changed.
input_changed_unseeded(last, name, value) ==
    IF name \in DOMAIN last THEN last[name] # value ELSE TRUE

\* *map.entry(name).or_insert(value) != value, main.rs:355-358 and 367-370
input_changed(last, name, value) ==
    (IF name \in DOMAIN last THEN last[name] ELSE value) # value

\* A mutant of push: the tick is appended to every log of the map.
push_all(m, name, tick) ==
    [x \in (DOMAIN m) \cup {name} |->
        Append(IF x \in DOMAIN m THEN m[x] ELSE <<>>, tick)]

\* map.entry(name).or_insert(Vec::new()).push(tick), main.rs:360-363, 372-375
push(m, name, tick) ==
    Put(m, name, Append(IF name \in DOMAIN m THEN m[name] ELSE <<>>, tick))

\* The log a map holds for a name; no entry reads as the empty log.
LogOf(m, name) == IF name \in DOMAIN m THEN m[name] ELSE <<>>

----------------------------------------------------------------------------
(* The combine step, main.rs:391-407 *)

\* A mutant of CombinedStats: overall_changes leaves the hook changes out.
CombinedStatsDirectionOnly(ds, hs) ==
    [direction_change_rate_average |-> ds.average,
     direction_change_rate_median |-> ds.median,
     direction_change_rate_max |-> ds.max,
     hook_state_change_rate_average |-> hs.average,
     hook_state_change_rate_median |-> hs.median,
     hook_state_change_rate_max |-> hs.max,
     direction_changes |-> ds.overall_changes,
     hook_changes |-> hs.overall_changes,
     overall_changes |-> ds.overall_changes]

CombinedStats(ds, hs) ==
    [direction_change_rate_average |-> ds.average,
     direction_change_rate_median |-> ds.median,
     direction_change_rate_max |-> ds.max,
     hook_state_change_rate_average |-> hs.average,
     hook_state_change_rate_median |-> hs.median,
     hook_state_change_rate_max |-> hs.max,
     direction_changes |-> ds.overall_changes,
     hook_changes |-> hs.overall_changes,
     overall_changes |-> ds.overall_changes + hs.overall_changes]

\* main.rs:386-389: the hook statistics, collected before the combine
HookResults ==
    [n \in DOMAIN hook_stats |->
        calculate_direction_change_stats(hook_stats[n], build)]

\* main.rs:382-384: the direction statistics, one per direction log
DirectionResults ==
    [n \in DOMAIN direction_stats |->
        calculate_direction_change_stats(direction_stats[n], build)]

\* main.rs:391-407: one entry per entry of direction_stats;
\* hook_stats.remove(&n).unwrap_or_default() for the hook side
ResultMap ==
    [n \in DOMAIN direction_stats |->
        CombinedStats(DirectionResults[n],
                      IF n \in DOMAIN hook_stats THEN HookResults[n]
                      ELSE StatsDefault)]

----------------------------------------------------------------------------
(* The Analyze command, main.rs:327-408 *)

\* The two signals of a character state as the specification defines them;
\* used for the history variable `seen` only, never by an action's effect
\* on the program's state.
Signals(p) ==
    [direction |-> p.direction,
     engaged |-> p.hook_state \in {"Flying", "Grabbed"}]

\* The parts of the state a specification does not use stay at these values.
AnalyzeStateIdle ==
    /\ pc = "reading"
    /\ reader_end = "none"
    /\ last_input_direction = <<>>
    /\ last_input_hook = <<>>
    /\ direction_stats = <<>>
    /\ hook_stats = <<>>
    /\ stats = <<>>
    /\ nobs = 0
    /\ obs_tick = 0
    /\ seen = <<>>

AnalyzeIdle ==
    /\ filter = <<>>
    /\ AnalyzeStateIdle

ExtractIdle ==
    /\ inputs = <<>>
    /\ extract_pc = "reading"
    /\ extract_end = "none"
    /\ snaps = <<>>

StatsIdle ==
    /\ changes = <<>>
    /\ result = StatsDefault
    /\ called = FALSE

NoSignal == <<"None", FALSE>>

ProjectIdle ==
    /\ tee = NoTee
    /\ signal = NoSignal
    /\ projected = FALSE

Init ==
    /\ build \in Builds
    /\ filter \in Filters
    /\ pc = "reading"
    /\ reader_end = "none"
    /\ last_input_direction = <<>>
    /\ last_input_hook = <<>>
    /\ direction_stats = <<>>
    /\ hook_stats = <<>>
    /\ stats = <<>>
    /\ nobs = 0
    /\ obs_tick = 0
    /\ seen = <<>>
    /\ StatsIdle
    /\ ProjectIdle
    /\ ExtractIdle

\* One iteration of `for (_id, p) in snap.players.iter()`, main.rs:341-379,
\* for a player entry with name `name` and character state `p`.  p.tick is
\* the i32 computed at main.rs:350.  The push to `inputs` (main.rs:351-354)
\* is left out: the Analyze arm never reads that map.
Observe(name, p) ==
    /\ pc = "reading"
    /\ nobs < MaxObs
    /\ nobs' = nobs + 1
    /\ IF ~Matches(name, filter) \/ p = NoTee
       THEN UNCHANGED <<last_input_direction, last_input_hook,
                        direction_stats, hook_stats, obs_tick, seen>>
       ELSE /\ direction_stats' =
                 IF input_changed(last_input_direction, name, p.direction)
                 THEN push(direction_stats, name, p.tick)
                 ELSE direction_stats
            /\ last_input_direction' =
                 Put(last_input_direction, name, p.direction)
            /\ hook_stats' =
                 IF input_changed(last_input_hook, name,
                                  hook_pressed(p.hook_state))
                 THEN push(hook_stats, name, p.tick)
                 ELSE hook_stats
            /\ last_input_hook' =
                 Put(last_input_hook, name, hook_pressed(p.hook_state))
            /\ obs_tick' = p.tick
            /\ seen' = Put(seen, name, Signals(p))
    /\ UNCHANGED <<build, filter, pc, reader_end, stats, svars, pvars, evars>>

\* The read loop ends (next_chunk returned Ok(None), "eof", or Err, "error":
\* `while let Ok(Some(_))` leaves the loop on both), then main.rs:382-407.
Finish(how) ==
    /\ pc = "reading"
    /\ reader_end' = how
    /\ IF \/ \E n \in DOMAIN hook_stats : HookResults[n].panic
          \/ \E n \in DOMAIN direction_stats : DirectionResults[n].panic
       THEN pc' = "panicked" /\ stats' = <<>>
       ELSE pc' = "done" /\ stats' = ResultMap
    /\ UNCHANGED <<build, filter, last_input_direction, last_input_hook,
                   direction_stats, hook_stats, nobs, obs_tick, seen, svars, pvars,
                   evars>>

Next ==
    \/ \E name \in Names, p \in Tees \cup {NoTee} : Observe(name, p)
    \/ \E how \in {"eof", "error"} : Finish(how)

Spec == Init /\ [][Next]_vars

----------------------------------------------------------------------------
(* The calculator applied to one log *)

RECURSIVE SeqsUpTo(_, _)
SeqsUpTo(S, n) ==
    IF n = 0 THEN {<<>>}
    ELSE LET shorter == SeqsUpTo(S, n - 1)
         IN shorter \cup {Append(s, x) : s \in shorter, x \in S}

InitStats ==
    /\ build \in Builds
    /\ changes \in SeqsUpTo(Ticks, MaxLen)
    /\ result = StatsDefault
    /\ called = FALSE
    /\ AnalyzeIdle
    /\ ProjectIdle
    /\ ExtractIdle

Calculate ==
    /\ ~called
    /\ called' = TRUE
    /\ result' = calculate_direction_change_stats(changes, build)
    /\ UNCHANGED <<build, changes, avars, pvars, evars>>

NextStats == Calculate

SpecStats == InitStats /\ [][NextStats]_vars

----------------------------------------------------------------------------
(* The signals read from one character state, main.rs:355-377 *)

InitProject ==
    /\ build \in Builds
    /\ tee \in Tees
    /\ signal = NoSignal
    /\ projected = FALSE
    /\ AnalyzeIdle
    /\ StatsIdle
    /\ ExtractIdle

Project ==
    /\ ~projected
    /\ projected' = TRUE
    /\ signal' = <<tee.direction, hook_pressed(tee.hook_state)>>
    /\ UNCHANGED <<build, tee, avars, svars, evars>>

NextProject == Project

SpecProject == InitProject /\ [][NextProject]_vars

----------------------------------------------------------------------------
(* extract, main.rs:164-184, and Inputs::from(&Tee), data.rs:159-186 *)

\* impl From<enums::Direction> for Direction, data.rs:46-54
DirectionFrom(value) ==
    CASE value = "Left" -> "Left"
      [] value = "None" -> "None"
      [] value = "Right" -> "Right"

\* impl From<enums::HookState> for HookState, data.rs:67-79
HookStateFrom(value) ==
    CASE value = "Retracted" -> "Retracted"
      [] value = "Idle" -> "Idle"
      [] value = "RetractStart" -> "RetractStart"
      [] value = "Retracting" -> "Retracting"
      [] value = "RetractEnd" -> "RetractEnd"
      [] value = "Flying" -> "Flying"
      [] value = "Grabbed" -> "Grabbed"

\* impl From<&Tee> for Inputs, data.rs:159-186: the fields the two signals
\* and the order of the series are read from; value.tick is the i32 of
\* data.rs:162.
InputsFrom(value) ==
    [tick |-> value.tick,
     direction |-> DirectionFrom(value.direction),
     hook_state |-> HookStateFrom(value.hook_state)]

\* Character states of the extracted stream.
ExtractTees ==
    {[tee |-> TRUE, tick |-> 10, direction |-> "Left", hook_state |-> "Idle"],
     [tee |-> TRUE, tick |-> MaxI32, direction |-> "None",
      hook_state |-> "Flying"]}

\* snap.players after a chunk: some of the names, each with or without a
\* character state.  A name stands for one player of the snapshot.
Snapshots ==
    UNION {[present -> ExtractTees \cup {NoTee}] : present \in SUBSET Names}

\* A mutant of ExtractPlayer: the newest entry is put first.
ExtractPlayerPrepend(m, name, p) ==
    IF ~Matches(name, filter) THEN m
    ELSE IF p.tee
    THEN Put(m, name, <<InputsFrom(p)>> \o LogOf(m, name))
    ELSE m

\* The loop body for one player entry, main.rs:171-180.
ExtractPlayer(m, name, p) ==
    IF ~Matches(name, filter) THEN m
    ELSE IF p.tee
    THEN Put(m, name, Append(LogOf(m, name), InputsFrom(p)))
    ELSE m

\* for (_id, p) in snap.players.iter(), main.rs:170-181
RECURSIVE ExtractPlayers(_, _, _)
ExtractPlayers(m, snap, names) ==
    IF names = {} THEN m
    ELSE LET name == CHOOSE n \in names : TRUE
         IN ExtractPlayers(ExtractPlayer(m, name, snap[name]), snap,
                           names \ {name})

InitExtract ==
    /\ build = "release"
    /\ filter \in Filters
    /\ AnalyzeStateIdle
    /\ StatsIdle
    /\ ProjectIdle
    /\ ExtractIdle

\* next_chunk returned Ok(Some(_)) and left `snap` in the snapshot: one
\* turn of the while loop, main.rs:169-182.
ReadChunk(snap) ==
    /\ extract_pc = "reading"
    /\ Len(snaps) < MaxSnaps
    /\ inputs' = ExtractPlayers(inputs, snap, DOMAIN snap)
    /\ snaps' = Append(snaps, snap)
    /\ UNCHANGED <<build, avars, svars, pvars, extract_pc, extract_end>>

\* next_chunk returned Ok(None) ("eof") or Err ("error"): the loop ends on
\* both and extract returns Ok(inputs), main.rs:169 and 183.
Return(how) ==
    /\ extract_pc = "reading"
    /\ extract_pc' = "returned"
    /\ extract_end' = how
    /\ UNCHANGED <<build, avars, svars, pvars, inputs, snaps>>

NextExtract ==
    \/ \E snap \in Snapshots : ReadChunk(snap)
    \/ \E how \in {"eof", "error"} : Return(how)

SpecExtract == InitExtract /\ [][NextExtract]_vars

----------------------------------------------------------------------------
(* Definitions used to state the claims *)

Min(a, b) == IF a < b THEN a ELSE b

\* The ascending arrangement of a log, stated without the program's sort.
IsSortedPermutation(s, log) ==
    /\ Len(s) = Len(log)
    /\ \A i \in 1..(Len(s) - 1) : s[i] <= s[i + 1]
    /\ \A x \in Ticks :
        Cardinality({i \in 1..Len(s) : s[i] = x})
            = Cardinality({i \in 1..Len(log) : log[i] = x})

\* The k-th smallest element of a sequence of naturals, stated by counting.
KthSmallest(s, k) ==
    CHOOSE v \in {s[i] : i \in 1..Len(s)} :
        /\ Cardinality({i \in 1..Len(s) : s[i] < v}) < k
        /\ Cardinality({i \in 1..Len(s) : s[i] <= v}) >= k

Ascending(log) == [k \in 1..Len(log) |-> KthSmallest(log, k)]

\* The number of events at positions i..i+49 of the ascending log s whose
\* tick is at most 50 ticks after s[i]; 1 when s[i] + 50 leaves i32 and the
\* sum wraps below every tick.
WindowSample(s, i) ==
    IF s[i] > MaxI32 - 50 THEN 1
    ELSE Cardinality({j \in i..Min(i + 49, Len(s)) : s[j] <= s[i] + 50})

WindowSamples(s) == [i \in 1..Len(s) |-> WindowSample(s, i)]

SeqMax(s) == CHOOSE x \in {s[i] : i \in 1..Len(s)} :
                 \A i \in 1..Len(s) : s[i] <= x

AllCoincident(log) == \A i, j \in 1..Len(log) : log[i] = log[j]

\* A build with overflow checks panics on this log.
PanicsOn(log) == build = "debug" /\ \E i \in 1..Len(log) : log[i] > MaxI32 - 50

StatsOf(average, median, max, overall) ==
    [panic |-> FALSE, average |-> average, median |-> median, max |-> max,
     overall_changes |-> overall]

----------------------------------------------------------------------------
(* C1 *)

\* C1: in the analyze loop an observation of a player appends a change
\* event carrying the observation's tick to the player's direction log
\* (hook log) if and only if the player was observed before and the
\* direction (hook-engaged value) differs from the one at the player's
\* preceding observation; the first observation appends nothing and seeds
\* the last-seen values.
C1_ChangeEventIffSignalDiffers ==
    [][\A n \in Names :
        /\ LogOf(direction_stats', n) =
             IF n \in DOMAIN seen /\ seen'[n].direction # seen[n].direction
             THEN Append(LogOf(direction_stats, n), obs_tick')
             ELSE LogOf(direction_stats, n)
        /\ LogOf(hook_stats', n) =
             IF n \in DOMAIN seen /\ seen'[n].engaged # seen[n].engaged
             THEN Append(LogOf(hook_stats, n), obs_tick')
             ELSE LogOf(hook_stats, n)
        /\ (n \notin DOMAIN seen /\ n \in DOMAIN seen') =>
             /\ last_input_direction'[n] = seen'[n].direction
             /\ last_input_hook'[n] = seen'[n].engaged]_vars

\* A player observed twice whose direction changed and whose hook did not:
\* one direction event carrying the second observation's tick, no hook event.
C1_Witness ==
    \E n \in DOMAIN direction_stats :
        /\ direction_stats[n] = <<obs_tick>>
        /\ n \notin DOMAIN hook_stats
        /\ n \in DOMAIN seen
        /\ nobs = 2

----------------------------------------------------------------------------
(* C2 *)

----------------------------------------------------------------------------
(* C3 *)

\* C3: for every log, the overall_changes the calculator returns equals the
\* number of events of the log, whatever the samples are.
C3_OverallChangesIsLogLength ==
    (called /\ ~result.panic) => result.overall_changes = Len(changes)

\* A returned result for a log of 4 events, two of them coincident.
C3_Witness ==
    /\ called
    /\ ~result.panic
    /\ Len(changes) = 4
    /\ changes[2] = changes[3]
    /\ changes[1] # changes[4]
    /\ result.overall_changes = 4

----------------------------------------------------------------------------
(* C4 *)

\* The smallest positive difference of consecutive ticks of an ascending
\* log; 0 when every pair is coincident.
RECURSIVE MinPositiveGap(_)
MinPositiveGap(s) ==
    IF Len(s) < 2 THEN 0
    ELSE LET gap == s[2] - s[1]
             rest == MinPositiveGap(Tail(s))
         IN IF gap = 0 THEN rest
            ELSE IF rest = 0 THEN gap
            ELSE Min(gap, rest)

----------------------------------------------------------------------------
(* C5 *)

----------------------------------------------------------------------------
(* C6 *)

\* C6: after the analysis every player the change detector observed (its
\* name matched the filter and it had a character state in some snapshot)
\* has an entry in the result map, whichever of its logs are empty.
C6_EveryObservedPlayerInResult ==
    pc = "done" => \A n \in DOMAIN seen : n \in DOMAIN stats

----------------------------------------------------------------------------
(* C7 *)

\* C7: every entry of the result map carries the direction and the hook
\* statistics' average, median and max unchanged, direction_changes = the
\* number of events of the direction log, hook_changes = that of the hook
\* log (0, with zero statistics, when the player has no hook log) and
\* overall_changes = direction_changes + hook_changes.
C7_CombinedRecord ==
    pc = "done" =>
        \A n \in DOMAIN stats :
            LET c == stats[n]
                ds == calculate_direction_change_stats(
                          LogOf(direction_stats, n), build)
                hs == calculate_direction_change_stats(
                          LogOf(hook_stats, n), build)
            IN /\ c.direction_change_rate_average = ds.average
               /\ c.direction_change_rate_median = ds.median
               /\ c.direction_change_rate_max = ds.max
               /\ c.hook_state_change_rate_average = hs.average
               /\ c.hook_state_change_rate_median = hs.median
               /\ c.hook_state_change_rate_max = hs.max
               /\ c.direction_changes = Len(LogOf(direction_stats, n))
               /\ c.hook_changes = Len(LogOf(hook_stats, n))
               /\ c.overall_changes = c.direction_changes + c.hook_changes
               /\ n \notin DOMAIN hook_stats =>
                    /\ c.hook_changes = 0
                    /\ c.hook_state_change_rate_average = Zero
                    /\ c.hook_state_change_rate_median = Zero
                    /\ c.hook_state_change_rate_max = 0

\* Scenario B: a player with 1 direction event and 3 hook events has
\* overall_changes 4.
C7_Witness ==
    /\ pc = "done"
    /\ \E n \in DOMAIN stats :
        /\ Len(LogOf(direction_stats, n)) = 1
        /\ Len(LogOf(hook_stats, n)) = 3
        /\ stats[n].direction_changes = 1
        /\ stats[n].hook_changes = 3
        /\ stats[n].overall_changes = 4

----------------------------------------------------------------------------
(* C8 *)

\* C8: the calculator returns a result for every log of 32-bit ticks,
\* without a panic and without an arithmetic overflow, ticks within 50 of
\* the largest 32-bit tick included.
C8_CalculatorTotal ==
    called => (~result.panic /\ ~Overflowed(changes))

----------------------------------------------------------------------------
(* C9 *)

\* C9: the hook-engaged signal read from a character state is true exactly
\* for the hook states Flying and Grabbed and false for the other five; a
\* value is defined for each of the seven states.
C9_HookEngagedIffFlyingOrGrabbed ==
    projected =>
        /\ signal[2] \in BOOLEAN
        /\ signal[2] <=> tee.hook_state \in {"Flying", "Grabbed"}

C9_Witness ==
    /\ projected
    /\ tee.hook_state = "Flying"
    /\ signal[2] = TRUE

----------------------------------------------------------------------------
(* C11 *)

\* C11: in the single-source analysis a decode failure of the snapshot
\* stream (the decoder returning an error for a chunk) is fatal: no result
\* map is produced for that source.
C11_DecodeFailureIsFatal ==
    reader_end = "error" => (pc # "done" /\ stats = <<>>)

----------------------------------------------------------------------------
(* C12 *)

UpperChar(c) == IF c = "a" THEN "A" ELSE IF c = "b" THEN "B" ELSE c

\* f occurs in name as a substring when letters are compared without case.
ContainsIgnoringCase(name, f) ==
    \E k \in 0..(Len(name) - Len(f)) :
        \A i \in 1..Len(f) : UpperChar(name[k + i]) = UpperChar(f[i])

\* The names with an entry in some map of the analysis.
AnalyzeKeys(dir, hook, ldir, lhook, res) ==
    (DOMAIN dir) \cup (DOMAIN hook) \cup (DOMAIN ldir) \cup (DOMAIN lhook)
        \cup (DOMAIN res)

----------------------------------------------------------------------------
(* C13 *)

\* C13: for every log that yields at least one sample, average = the
\* samples' sum over their number, max = the largest sample, and median =
\* the mean of the two middle samples of the ascending samples when their
\* number is even, the middle sample when it is odd.
C13_AverageMedianMax ==
    (called /\ ~result.panic /\ Len(changes) >= 1) =>
        LET samples == Times(sort(changes))
            n == Len(samples)
        IN /\ n >= 1
           /\ result.average = Frac(Sum(samples), n)
           /\ \A i \in 1..n : samples[i] <= result.max
           /\ \E i \in 1..n : samples[i] = result.max
           /\ result.median =
                IF n % 2 = 0
                THEN Frac(KthSmallest(samples, n \div 2)
                              + KthSmallest(samples, (n \div 2) + 1), 2)
                ELSE Frac(KthSmallest(samples, (n + 1) \div 2), 1)

\* An even number of samples whose two middle samples differ (3, 2, 1, 1):
\* the median lies between them and differs from the average.
C13_Witness ==
    /\ called
    /\ changes = <<0, 0, 0, 51>>
    /\ result = StatsOf(<<7, 4>>, <<3, 2>>, 3, 4)

----------------------------------------------------------------------------
(* C14 *)

\* The snapshots read so far in which player n is present with a character
\* state, n matching the filter; none if n does not match.
SnapshotsWithTee(n) ==
    IF ContainsIgnoringCase(n, filter)
    THEN {k \in 1..Len(snaps) : n \in DOMAIN snaps[k] /\ snaps[k][n].tee}
    ELSE {}

\* C14: the map extract holds (and returns) has, for each player matching
\* the filter with a character state in at least one snapshot, exactly one
\* entry per snapshot in which the player is present with a character
\* state, in the order the snapshots were read, each entry carrying that
\* snapshot's character state; a snapshot in which the player has no
\* character state adds no entry, and a player with no entries is not a key.
C14_OneEntryPerSnapshotInOrder ==
    \A n \in Names :
        LET K == SnapshotsWithTee(n)
        IN /\ (n \in DOMAIN inputs) <=> (K # {})
           /\ Len(LogOf(inputs, n)) = Cardinality(K)
           /\ \A k \in K :
                 LET e == inputs[n][Cardinality({j \in K : j <= k})]
                     t == snaps[k][n]
                 IN /\ e.tick = t.tick
                    /\ e.direction = t.direction
                    /\ e.hook_state = t.hook_state

\* extract has returned after three snapshots: the matching player had a
\* character state in the first and third and none in the second, and has
\* the two entries in that order; the other player, present with a
\* character state, does not match and is not a key.
C14_Witness ==
    /\ extract_pc = "returned"
    /\ filter = <<"B">>
    /\ Len(snaps) = 3
    /\ DOMAIN snaps[1] = Names
    /\ snaps[1][<<"A">>].tee
    /\ snaps[1][<<"a", "B">>].tee /\ snaps[1][<<"a", "B">>].tick = 10
    /\ <<"a", "B">> \in DOMAIN snaps[2] /\ ~snaps[2][<<"a", "B">>].tee
    /\ <<"a", "B">> \in DOMAIN snaps[3]
    /\ snaps[3][<<"a", "B">>].tee /\ snaps[3][<<"a", "B">>].tick = MaxI32
    /\ DOMAIN inputs = {<<"a", "B">>}
    /\ Len(inputs[<<"a", "B">>]) = 2
    /\ inputs[<<"a", "B">>][1].tick = 10
    /\ inputs[<<"a", "B">>][2].tick = MaxI32

----------------------------------------------------------------------------
(* C15 *)

\* s without its i-th element
Without(s, i) == [j \in 1..(Len(s) - 1) |-> IF j < i THEN s[j] ELSE s[j + 1]]

RECURSIVE Rearrangements(_)
Rearrangements(s) ==
    IF s = <<>> THEN {<<>>}
    ELSE UNION {{<<s[i]>> \o q : q \in Rearrangements(Without(s, i))} :
                    i \in 1..Len(s)}

\* C15: the calculator's result depends only on the multiset of ticks of
\* the log: every permutation of the log gives the result the log gives.
C15_OrderOfArrivalIrrelevant ==
    called =>
        \A q \in Rearrangements(changes) :
            calculate_direction_change_stats(q, build) = result

\* A log that arrived out of order.
C15_Witness ==
    /\ called
    /\ changes = <<35, 0, 10>>
    /\ result = StatsOf(<<2, 1>>, <<2, 1>>, 3, 3)

----------------------------------------------------------------------------
(* C16 *)

\* Player n has the same entry, or none, in both maps.
SameEntry(m1, m2, n) ==
    /\ (n \in DOMAIN m1) <=> (n \in DOMAIN m2)
    /\ (n \in DOMAIN m1) => (m1[n] = m2[n])

\* The step is not an observation that changed what is known of player n.
NotObserved(n, before, after) == SameEntry(before, after, n)

\* C16: a step of the analyze loop leaves the last-seen direction, the
\* last-seen hook-engaged value and both logs of every player untouched
\* except those of the one observed player, whose values change only with
\* what was observed of that player; the result map is not touched by an
\* observation.  The signals do not interact: the direction log of a player
\* grows exactly when the player's direction differs from the player's
\* preceding direction, whatever the hook does, and the hook log grows
\* exactly when the hook-engaged value differs from the preceding one,
\* whatever the direction does.
C16_OnlyObservedPlayerChanges ==
    [][/\ \A n \in Names :
            NotObserved(n, seen, seen') =>
                /\ SameEntry(last_input_direction, last_input_direction', n)
                /\ SameEntry(last_input_hook, last_input_hook', n)
                /\ SameEntry(direction_stats, direction_stats', n)
                /\ SameEntry(hook_stats, hook_stats', n)
       /\ \A n, m \in Names :
            (n # m /\ ~NotObserved(n, seen, seen')) =>
                NotObserved(m, seen, seen')
       /\ \A n \in DOMAIN seen' :
            LET turned == n \in DOMAIN seen
                            /\ seen[n].direction # seen'[n].direction
                hooked == n \in DOMAIN seen
                            /\ seen[n].engaged # seen'[n].engaged
            IN /\ turned <=> ~SameEntry(direction_stats, direction_stats', n)
               /\ hooked <=> ~SameEntry(hook_stats, hook_stats', n)
               /\ (turned /\ ~hooked) =>
                     last_input_hook'[n] = last_input_hook[n]
               /\ (hooked /\ ~turned) =>
                     last_input_direction'[n] = last_input_direction[n]
       /\ nobs' # nobs => (stats' = stats /\ filter' = filter)]_vars

\* Two players observed in turn: one turned without touching the hook and
\* has a direction event and no hook event, the other engaged the hook
\* without turning and has a hook event and no direction event.
C16_Witness ==
    /\ pc = "reading"
    /\ nobs = 4
    /\ DOMAIN seen = Names
    /\ DOMAIN direction_stats = {<<"A">>}
    /\ DOMAIN hook_stats = {<<"a", "B">>}
    /\ Len(direction_stats[<<"A">>]) = 1
    /\ Len(hook_stats[<<"a", "B">>]) = 1
    /\ seen[<<"a", "B">>].engaged

----------------------------------------------------------------------------
(* C17 *)

\* C17: for a non-empty log there is one sample per event, the sample of
\* the i-th event of the sorted log being the number of events at positions
\* i..i+49 whose tick is at most 50 ticks after the i-th event's; every
\* sample lies between 1 and min(50, length), and
\* 1 <= median <= max <= min(50, length), 1 <= average <= max.
C17_SamplesCountEventsInWindow ==
    (called /\ Len(changes) >= 1) =>
        LET s == Ascending(changes)
            n == Len(s)
            samples == Times(sort(changes))
            cap == Min(50, n)
        IN /\ ~result.panic
           /\ Len(samples) = n
           /\ \A i \in 1..n :
                /\ samples[i] =
                     Cardinality({j \in i..Min(i + 49, n) : s[j] - s[i] <= 50})
                /\ 1 <= samples[i] /\ samples[i] <= cap
           /\ result.max <= cap
           /\ result.median[1] >= result.median[2]
           /\ result.median[1] <= result.max * result.median[2]
           /\ result.average[1] >= result.average[2]
           /\ result.average[1] <= result.max * result.average[2]

====
